---- MODULE Spec2Model ----
(***************************************************************************)
(* Wireless tempo/pattern synchronisation of the ESP32 metronome           *)
(* (src/src/WirelessSync.cpp): leader negotiation, heartbeat timeout,      *)
(* frame reception and the leader's frame emission.                        *)
(*                                                                         *)
(* Time is the microsecond counter micros(); millis() is now \div 1000.    *)
(* Tempo is kept in hundredths of a BPM and the drift correction factor in *)
(* ten-thousandths, so that the float arithmetic of the source becomes     *)
(* integer arithmetic (products are rounded down).                         *)
(***************************************************************************)
EXTENDS Integers, Sequences, FiniteSets, TLC

\* ---------------------------------------------------------------- bounds
\* number of 500 ms steps the bounded specifications let the clock run
MaxTimeSteps == 4
\* number of frames one device may send in the bounded specifications
MaxSends == 2
\* number of datagrams of other origin the bounded specifications hand over
MaxStrays == 3
\* largest tick number the clock callbacks are called with
MaxTick == 4
\* number of quarter notes the PPQN clock runs before it must be stopped
MaxQuarter == 2
\* longest bar the encoder is turned to in the bounded specifications
MaxBarLength == 6
\* longest bar whose pattern is edited in the bounded specifications
MaxPatternBits == 8

\* ------------------------------------------------------- program constants
SettleDelayMs == 500
LeaderTimeoutMs == 1000
SyncMessageSize == 32
CHANNEL_COUNT == 2
MAX_BEATS == 16
DEFAULT_BPM == 120
MIN_BPM == 20
MAX_BPM == 500
MIN_GLOBAL_BPM == 20
MAX_GLOBAL_BPM == 500
DefaultMultiplierIndex == 2
LatencySlots == 8
PPQN == 96
DriftThresholdUs == 100
DriftMin == 9000
DriftMax == 11000
DriftUnit == 10000
TempoUnit == 100

\* granularity of the modelled clock, in microseconds (one step = 500 ms)
TimeStepUs == 500 * 1000
\* width of the modelled millis()/micros() counters (stand-in for 2^32)
TimeWrapUs == 8 * TimeStepUs
\* width of the modelled sequence counter (stand-in for 2^32)
SeqWrap == MaxSends + 1

\* devices; the device id stands for the 6-byte MAC, ordered as memcmp orders
Dev == {1, 2, 3}
NoDevice == 0
Channels == 0 .. (CHANNEL_COUNT - 1)

MSG_CLOCK == "CLOCK"
MSG_BEAT == "BEAT"
MSG_BAR == "BAR"
MSG_PATTERN == "PATTERN"
MSG_CONTROL == "CONTROL"
CMD_RESET == "RESET"
CMD_OTHER == "OTHER"
NoObs == [op |-> "none", d |-> NoDevice]
\* the value of the tick counter that stands for a stopped clock
ClockStopped == -1

VARIABLES
  now,                      \* micros() of the shared wall clock
  up,                       \* devices that are powered and running
  priority,                 \* _priority
  isLeader,                 \* _isLeader
  leaderNegotiationActive,  \* _leaderNegotiationActive
  highestPrioritySeen,      \* _highestPrioritySeen
  highestPriorityDevice,    \* _highestPriorityDevice
  currentLeaderID,          \* _currentLeaderID
  lastLeaderHeartbeat,      \* _lastLeaderHeartbeat (millis)
  sequenceNum,              \* _sequenceNum
  patternChanged,           \* _patternChanged
  initialPatternsSent,      \* static flag of update()
  state,                    \* _state: TRUE once update() has stored the reference
  lastQuarterNote,          \* _lastQuarterNote
  latencyBuffer,            \* _latencyBuffer
  latencyBufferIndex,       \* _latencyBufferIndex
  averageLatency,           \* _averageLatency
  driftCorrection,          \* _driftCorrection (ten-thousandths)
  lastReceivedTick,         \* _lastReceivedTick
  predictedNextTick,        \* _predictedNextTick
  tempo,                    \* uClock tempo (hundredths of a BPM)
  bpm,                      \* MetronomeState::bpm (whole BPM)
  chan,                     \* MetronomeState channels
  pc,                       \* position of the main loop: "loop" or "delay"
  negCaller,                \* who called startLeaderNegotiation
  delayStart,               \* millis() at which delay(500) was entered
  heard,                    \* negotiation frames processed in this window
  net,                      \* frames in flight: records [to, f]
  strays,                   \* datagrams of other origin handed over so far
  uClockTick,               \* tick counter of the clock, ClockStopped if stopped
  obs                       \* the call observed in the last step, if any

leaderVars == <<isLeader, leaderNegotiationActive, highestPrioritySeen,
                highestPriorityDevice, currentLeaderID, lastLeaderHeartbeat>>
driftVars == <<latencyBuffer, latencyBufferIndex, averageLatency,
               driftCorrection, lastReceivedTick, predictedNextTick>>
sendVars == <<sequenceNum, net>>
loopVars == <<pc, negCaller, delayStart, heard>>
flagVars == <<patternChanged, initialPatternsSent, lastQuarterNote>>
vars == <<now, up, state, priority, uClockTick, leaderVars, driftVars, sendVars, loopVars,
          flagVars, tempo, bpm, chan, strays, obs>>

\* ------------------------------------------------------------ clock reads
Micros == now
Millis == now \div 1000
\* unsigned subtraction at the width of the counters
SubWrap(a, b, w) == (a - b + w) % w
MillisSince(t) == SubWrap(Millis, t, TimeWrapUs \div 1000)
MicrosSince(t) == SubWrap(Micros, t, TimeWrapUs)
\* the signed reading of an unsigned difference (int32_t drift)
Signed(x, w) == IF x >= w \div 2 THEN x - w ELSE x
Abs(x) == IF x < 0 THEN 0 - x ELSE x
Constrain(x, lo, hi) == IF x < lo THEN lo ELSE IF x > hi THEN hi ELSE x

\* ------------------------------------------------------------ the channels
Pow2(n) == 2 ^ n
\* MetronomeChannel::setBarLength: clamp to [1, MAX_BEATS]
SetBarLength(ch, n) == [ch EXCEPT !.barLength = Constrain(n, 1, MAX_BEATS)]
\* MetronomeChannel::setPattern: truncate to the bit width of barLength
SetPattern(ch, bits) == [ch EXCEPT !.pattern = bits % Pow2(ch.barLength)]
\* MetronomeChannel::toggleEnabled when the flag differs from the wanted one
SetEnabled(ch, en) == IF ch.enabled # en THEN [ch EXCEPT !.enabled = ~ch.enabled]
                      ELSE ch
\* the settings a device starts with (device 1 and the others differ)
InitChannel(d, c) ==
  IF d = 1 THEN [barLength |-> 4, pattern |-> 1, enabled |-> TRUE, currentBeat |-> 0]
  ELSE [barLength |-> 3, pattern |-> 5, enabled |-> (c = 0), currentBeat |-> 0]

\* ------------------------------------------------------------- the frames
\* sendMessage: the common header put on a frame body
Header(d, body, seq) ==
  body @@ [sequenceNum |-> seq, priority |-> priority[d], deviceID |-> d,
           timestamp |-> Micros]
\* sendMessage, once per body of the sequence bodies: broadcast to every other
\* running device (an echo to the sender arrives as a stray datagram)
SendMessage(d, bodies) ==
  /\ sequenceNum' = [sequenceNum EXCEPT ![d] = (@ + Len(bodies)) % SeqWrap]
  /\ net' = net \cup
       { [to |-> r, f |-> Header(d, bodies[i], (sequenceNum[d] + i - 1) % SeqWrap)] :
           r \in up \ {d}, i \in 1 .. Len(bodies) }
NoSend == UNCHANGED <<sequenceNum, net>>

ClockBody(d, tick) ==
  [type |-> MSG_CLOCK, isLeader |-> IF isLeader[d] THEN 1 ELSE 0, clockTick |-> tick]
ControlBody(cmd, p1, val) ==
  [type |-> MSG_CONTROL, command |-> cmd, param1 |-> p1, param2 |-> 0,
   param3 |-> 0, value |-> val]
PatternBody(d, c) ==
  [type |-> MSG_PATTERN, channelId |-> c, barLength |-> chan[d][c].barLength,
   pattern |-> chan[d][c].pattern, currentBeat |-> chan[d][c].currentBeat,
   enabled |-> IF chan[d][c].enabled THEN 1 ELSE 0]

\* ------------------------------------------------------- leader election
\* isHigherPriority
IsHigherPriority(d, deviceID, prio) ==
  IF prio > highestPrioritySeen[d] THEN TRUE
  ELSE IF prio = highestPrioritySeen[d] THEN deviceID < highestPriorityDevice[d]
  ELSE FALSE

\* isLeaderTimedOut with the comparison off by one
IsLeaderTimedOut_AtTimeout(d) ==
  IF isLeader[d] THEN FALSE
  ELSE MillisSince(lastLeaderHeartbeat[d]) >= LeaderTimeoutMs

\* isLeaderTimedOut with the timeout taken in seconds
IsLeaderTimedOut_Seconds(d) ==
  IF isLeader[d] THEN FALSE
  ELSE MillisSince(lastLeaderHeartbeat[d]) > LeaderTimeoutMs * 1000

\* isLeaderTimedOut
IsLeaderTimedOut(d) ==
  IF isLeader[d] THEN FALSE
  ELSE MillisSince(lastLeaderHeartbeat[d]) > LeaderTimeoutMs

\* startLeaderNegotiation that leaves the tracked device as it was
StartLeaderNegotiation_NoDevice(d, caller) ==
  /\ leaderNegotiationActive' = [leaderNegotiationActive EXCEPT ![d] = TRUE]
  /\ highestPrioritySeen' = [highestPrioritySeen EXCEPT ![d] = priority[d]]
  /\ SendMessage(d, <<ControlBody(CMD_RESET, 1, priority[d])>>)
  /\ pc' = [pc EXCEPT ![d] = "delay"]
  /\ negCaller' = [negCaller EXCEPT ![d] = caller]
  /\ delayStart' = [delayStart EXCEPT ![d] = Millis]
  /\ heard' = [heard EXCEPT ![d] = FALSE]
  /\ UNCHANGED <<isLeader, currentLeaderID, lastLeaderHeartbeat, highestPriorityDevice>>

\* startLeaderNegotiation up to the delay(500): the caller is held in the delay
StartLeaderNegotiation(d, caller) ==
  /\ leaderNegotiationActive' = [leaderNegotiationActive EXCEPT ![d] = TRUE]
  /\ highestPrioritySeen' = [highestPrioritySeen EXCEPT ![d] = priority[d]]
  /\ highestPriorityDevice' = [highestPriorityDevice EXCEPT ![d] = d]
  /\ SendMessage(d, <<ControlBody(CMD_RESET, 1, priority[d])>>)
  /\ pc' = [pc EXCEPT ![d] = "delay"]
  /\ negCaller' = [negCaller EXCEPT ![d] = caller]
  /\ delayStart' = [delayStart EXCEPT ![d] = Millis]
  /\ heard' = [heard EXCEPT ![d] = FALSE]
  /\ UNCHANGED <<isLeader, currentLeaderID, lastLeaderHeartbeat>>

\* startLeaderNegotiation line by line, for the frame-arrival notification
\* that runs between two lines of it: line 328 (entered from
\* negotiateLeadership)
NegotiationFlagSet(d) ==
  /\ d \in up /\ pc[d] = "loop"
  /\ leaderNegotiationActive' = [leaderNegotiationActive EXCEPT ![d] = TRUE]
  /\ pc' = [pc EXCEPT ![d] = "line329"]
  /\ negCaller' = [negCaller EXCEPT ![d] = "negotiateLeadership"]
  /\ heard' = [heard EXCEPT ![d] = FALSE]
  /\ UNCHANGED <<now, up, state, priority, uClockTick, isLeader, highestPrioritySeen,
                 highestPriorityDevice, currentLeaderID, lastLeaderHeartbeat,
                 driftVars, sendVars, delayStart, flagVars, tempo, bpm, chan>>
\* startLeaderNegotiation, line 329
NegotiationSeenSet(d) ==
  /\ d \in up /\ pc[d] = "line329"
  /\ highestPrioritySeen' = [highestPrioritySeen EXCEPT ![d] = priority[d]]
  /\ pc' = [pc EXCEPT ![d] = "line330"]
  /\ UNCHANGED <<now, up, state, priority, uClockTick, isLeader, leaderNegotiationActive,
                 highestPriorityDevice, currentLeaderID, lastLeaderHeartbeat,
                 driftVars, sendVars, negCaller, delayStart, heard, flagVars,
                 tempo, bpm, chan>>
\* startLeaderNegotiation, line 330
NegotiationDeviceSet(d) ==
  /\ d \in up /\ pc[d] = "line330"
  /\ highestPriorityDevice' = [highestPriorityDevice EXCEPT ![d] = d]
  /\ pc' = [pc EXCEPT ![d] = "line333"]
  /\ UNCHANGED <<now, up, state, priority, uClockTick, isLeader, leaderNegotiationActive,
                 highestPrioritySeen, currentLeaderID, lastLeaderHeartbeat,
                 driftVars, sendVars, negCaller, delayStart, heard, flagVars,
                 tempo, bpm, chan>>
\* startLeaderNegotiation, lines 333 to 344: the frame is sent and the
\* delay(500) entered
NegotiationSent(d) ==
  /\ d \in up /\ pc[d] = "line333"
  /\ SendMessage(d, <<ControlBody(CMD_RESET, 1, priority[d])>>)
  /\ pc' = [pc EXCEPT ![d] = "delay"]
  /\ delayStart' = [delayStart EXCEPT ![d] = Millis]
  /\ UNCHANGED <<now, up, state, priority, uClockTick, leaderVars, driftVars, negCaller,
                 heard, flagVars, tempo, bpm, chan>>

\* negotiateLeadership
NegotiateLeadership(d) ==
  /\ d \in up /\ pc[d] = "loop"
  /\ StartLeaderNegotiation(d, "negotiateLeadership")
  /\ UNCHANGED <<now, up, state, priority, uClockTick, driftVars, flagVars, tempo, bpm, chan>>

\* checkLeaderStatus that looks at the heartbeat age only
CheckLeaderStatus_AnyRole(d) ==
  /\ d \in up /\ pc[d] = "loop"
  /\ IF MillisSince(lastLeaderHeartbeat[d]) > LeaderTimeoutMs
       THEN StartLeaderNegotiation(d, "checkLeaderStatus")
       ELSE UNCHANGED <<leaderVars, sendVars, loopVars>>
  /\ UNCHANGED <<now, up, state, priority, uClockTick, driftVars, flagVars, tempo, bpm, chan>>

\* checkLeaderStatus
CheckLeaderStatus(d) ==
  /\ d \in up /\ pc[d] = "loop"
  /\ IF ~isLeader[d] /\ IsLeaderTimedOut(d)
       THEN StartLeaderNegotiation(d, "checkLeaderStatus")
       ELSE UNCHANGED <<leaderVars, sendVars, loopVars>>
  /\ UNCHANGED <<now, up, state, priority, uClockTick, driftVars, flagVars, tempo, bpm, chan>>

\* the delay(500) of startLeaderNegotiation has run its time
DelayElapsed(d) ==
  pc[d] = "delay" /\ MillisSince(delayStart[d]) >= SettleDelayMs

\* startLeaderNegotiation after the delay(500), the active flag left set
SettleEnd_FlagKept(d) ==
  /\ d \in up /\ DelayElapsed(d)
  /\ isLeader' = [isLeader EXCEPT ![d] = (highestPriorityDevice[d] = d)]
  /\ pc' = [pc EXCEPT ![d] = "loop"]
  /\ UNCHANGED <<now, up, state, priority, uClockTick, highestPrioritySeen, highestPriorityDevice,
                 currentLeaderID, lastLeaderHeartbeat, driftVars, sendVars,
                 negCaller, delayStart, heard, flagVars, tempo, bpm, chan,
                 leaderNegotiationActive>>

\* startLeaderNegotiation after the delay(500)
SettleEnd(d) ==
  /\ d \in up /\ DelayElapsed(d)
  /\ isLeader' = [isLeader EXCEPT ![d] = (highestPriorityDevice[d] = d)]
  /\ leaderNegotiationActive' = [leaderNegotiationActive EXCEPT ![d] = FALSE]
  /\ pc' = [pc EXCEPT ![d] = "loop"]
  /\ UNCHANGED <<now, up, state, priority, uClockTick, highestPrioritySeen, highestPriorityDevice,
                 currentLeaderID, lastLeaderHeartbeat, driftVars, sendVars,
                 negCaller, delayStart, heard, flagVars, tempo, bpm, chan>>

\* setAsLeader
SetAsLeader(d, b) ==
  /\ d \in up /\ pc[d] = "loop"
  /\ isLeader' = [isLeader EXCEPT ![d] = b]
  /\ UNCHANGED <<now, up, state, priority, uClockTick, leaderNegotiationActive, highestPrioritySeen,
                 highestPriorityDevice, currentLeaderID, lastLeaderHeartbeat,
                 driftVars, sendVars, loopVars, flagVars, tempo, bpm, chan>>

\* ------------------------------------------------------ drift correction
RECURSIVE SumTo(_, _)
SumTo(buf, i) == IF i < 0 THEN 0 ELSE buf[i] + SumTo(buf, i - 1)

\* updateLatency: the new latency buffer, index and average of device d
LatencyBufferAfter(d, sendTime) ==
  [latencyBuffer[d] EXCEPT ![latencyBufferIndex[d]] = MicrosSince(sendTime)]
LatencyIndexAfter(d) == (latencyBufferIndex[d] + 1) % LatencySlots
AverageLatencyAfter(d, sendTime) ==
  SumTo(LatencyBufferAfter(d, sendTime), LatencySlots - 1) \div LatencySlots

\* uClock.bpmToMicroSeconds(tempo) / 24
TickInterval(t) == (((60000000 \div PPQN) * TempoUnit) \div t) \div 24
\* int32_t drift = actualTime - expectedTime
Drift(d, timestamp) ==
  Signed(SubWrap(Micros, timestamp + TickInterval(tempo[d]), TimeWrapUs), TimeWrapUs)
\* predictNextTick without the constrain() to [0.9, 1.1]
DriftCorrectionAfter_NoClamp(d, timestamp) ==
  IF lastReceivedTick[d] = 0 THEN driftCorrection[d]
  ELSE IF Abs(Drift(d, timestamp)) > DriftThresholdUs
       THEN driftCorrection[d] + (IF Drift(d, timestamp) > 0 THEN 1 ELSE -1)
       ELSE driftCorrection[d]
\* predictNextTick that corrects from 100 microseconds of drift on
DriftCorrectionAfter_AtThreshold(d, timestamp) ==
  IF lastReceivedTick[d] = 0 THEN driftCorrection[d]
  ELSE IF Abs(Drift(d, timestamp)) >= DriftThresholdUs
       THEN Constrain(driftCorrection[d] + (IF Drift(d, timestamp) > 0 THEN 1 ELSE -1),
                      DriftMin, DriftMax)
       ELSE driftCorrection[d]
\* predictNextTick: the drift correction factor after the call
DriftCorrectionAfter(d, timestamp) ==
  IF lastReceivedTick[d] = 0 THEN driftCorrection[d]
  ELSE IF Abs(Drift(d, timestamp)) > DriftThresholdUs
       THEN Constrain(driftCorrection[d] + (IF Drift(d, timestamp) > 0 THEN 1 ELSE -1),
                      DriftMin, DriftMax)
       ELSE driftCorrection[d]
\* predictNextTick: _predictedNextTick after the call
PredictedNextTickAfter(d, currentTick) ==
  IF lastReceivedTick[d] = 0 THEN predictedNextTick[d] ELSE currentTick + 1
\* correctedTempo = uClock.getTempo() * _driftCorrection
CorrectedTempo(d, timestamp) ==
  (tempo[d] * DriftCorrectionAfter(d, timestamp)) \div DriftUnit

\* ------------------------------------------------------- frame reception
\* processLeaderSelection: does the frame replace the tracked device
Replaces(d, m) ==
  leaderNegotiationActive[d] /\ IsHigherPriority(d, m.deviceID, m.priority)

IsNegotiation(m) ==
  m.type = MSG_CONTROL /\ m.command = CMD_RESET /\ m.param1 = 1
\* the MSG_CLOCK case without the look at the isLeader flag
IsLeaderClock_AnyClock(m) == m.type = MSG_CLOCK
IsLeaderClock(m) == m.type = MSG_CLOCK /\ m.isLeader # 0

\* the MSG_PATTERN case: the channels of d after the frame
ChannelsAfterPattern(d, m) ==
  IF ~isLeader[d] /\ m.channelId < CHANNEL_COUNT
    THEN [chan[d] EXCEPT ![m.channelId] =
            SetEnabled(SetBarLength(SetPattern(@, m.pattern), m.barLength),
                       m.enabled # 0)]
    ELSE chan[d]

\* the MSG_PATTERN case reaches the access through _state (lines 61 to 66)
Dereferences(d, m) == ~isLeader[d] /\ m.channelId < CHANNEL_COUNT
\* the access through a reference that was never set is undefined: the write
\* either lands on the channel after all or leaves the channels as they are
UnsetOutcomes(d, m) == {chan, [chan EXCEPT ![d] = ChannelsAfterPattern(d, m)]}

\* the MSG_BEAT case adopting the BPM from a difference of 0.5 on
TempoAfterBeat_AtHalf(d, m) ==
  IF ~isLeader[d] /\ 2 * Abs(tempo[d] - m.bpm) >= TempoUnit THEN m.bpm ELSE tempo[d]
\* the MSG_BEAT case: the tempo of d after the frame
TempoAfterBeat(d, m) ==
  IF ~isLeader[d] /\ 2 * Abs(tempo[d] - m.bpm) > TempoUnit THEN m.bpm ELSE tempo[d]

\* the size check left out
Rejected_EchoOnly(d, m, len) == m.deviceID = d
\* the echo check left out
Rejected_SizeOnly(d, m, len) == len # SyncMessageSize

\* the frame is dropped before any processing
Rejected(d, m, len) == len # SyncMessageSize \/ m.deviceID = d

\* onDataReceived past the size and echo checks
Dispatch(d, m) ==
  /\ latencyBuffer' = [latencyBuffer EXCEPT ![d] = LatencyBufferAfter(d, m.timestamp)]
  /\ latencyBufferIndex' = [latencyBufferIndex EXCEPT ![d] = LatencyIndexAfter(d)]
  /\ averageLatency' = [averageLatency EXCEPT ![d] = AverageLatencyAfter(d, m.timestamp)]
  /\ IF IsLeaderClock(m)
       THEN /\ currentLeaderID' = [currentLeaderID EXCEPT ![d] = m.deviceID]
            /\ lastLeaderHeartbeat' = [lastLeaderHeartbeat EXCEPT ![d] = Millis]
            /\ driftCorrection' = [driftCorrection EXCEPT ![d] =
                                     DriftCorrectionAfter(d, m.timestamp)]
            /\ predictedNextTick' = [predictedNextTick EXCEPT ![d] =
                                       PredictedNextTickAfter(d, m.clockTick)]
            /\ lastReceivedTick' = [lastReceivedTick EXCEPT ![d] = m.clockTick]
       ELSE UNCHANGED <<currentLeaderID, lastLeaderHeartbeat, driftCorrection,
                        predictedNextTick, lastReceivedTick>>
  /\ tempo' = [tempo EXCEPT ![d] =
                 IF IsLeaderClock(m) THEN CorrectedTempo(d, m.timestamp)
                 ELSE IF m.type = MSG_BEAT THEN TempoAfterBeat(d, m)
                 ELSE @]
  /\ IF m.type = MSG_PATTERN /\ Dereferences(d, m) /\ ~state[d]
       THEN chan' \in UnsetOutcomes(d, m)
       ELSE chan' = [chan EXCEPT ![d] =
                       IF m.type = MSG_PATTERN THEN ChannelsAfterPattern(d, m) ELSE @]
  /\ IF IsNegotiation(m) /\ Replaces(d, m)
       THEN /\ highestPrioritySeen' = [highestPrioritySeen EXCEPT ![d] = m.priority]
            /\ highestPriorityDevice' = [highestPriorityDevice EXCEPT ![d] = m.deviceID]
       ELSE UNCHANGED <<highestPrioritySeen, highestPriorityDevice>>
  /\ heard' = [heard EXCEPT ![d] =
                 @ \/ (IsNegotiation(m) /\ leaderNegotiationActive[d])]

\* onDataReceived: the radio hands device d a datagram of len bytes holding m
OnDataReceived(d, m, len) ==
  /\ d \in up
  /\ net' = net \ {[to |-> d, f |-> m]}
  /\ IF Rejected(d, m, len)
       THEN UNCHANGED <<driftVars, currentLeaderID, lastLeaderHeartbeat, tempo, chan,
                        highestPrioritySeen, highestPriorityDevice, heard>>
       ELSE Dispatch(d, m)
  /\ UNCHANGED <<now, up, state, priority, uClockTick, isLeader, leaderNegotiationActive, sequenceNum,
                 pc, negCaller, delayStart, flagVars, bpm>>

\* the frames on their way to device d
InFlightTo(d) == {x \in net : x.to = d}

\* the radio loses a frame
Lose(d, m) ==
  /\ [to |-> d, f |-> m] \in net
  /\ net' = net \ {[to |-> d, f |-> m]}
  /\ UNCHANGED <<now, up, state, priority, uClockTick, leaderVars, driftVars, sequenceNum, loopVars,
                 flagVars, tempo, bpm, chan>>

\* device d is out of range: every frame on its way to d is lost
LoseAll(d) ==
  /\ InFlightTo(d) # {}
  /\ net' = net \ InFlightTo(d)
  /\ UNCHANGED <<now, up, state, priority, uClockTick, leaderVars, driftVars, sequenceNum,
                 loopVars, flagVars, tempo, bpm, chan>>

\* the clock advances by one step; frames are on the air for far less than a
\* step, and delay() returns as soon as its time has run
AdvanceTime ==
  /\ net = {}
  /\ \A d \in up : ~DelayElapsed(d)
  /\ now' = (now + TimeStepUs) % TimeWrapUs
  /\ UNCHANGED <<up, state, priority, uClockTick, leaderVars, driftVars, sendVars, loopVars,
                 flagVars, tempo, bpm, chan>>

\* ------------------------------------------------------- frame emission
RECURSIVE Gcd(_, _)
\* gcd
Gcd(a, b) == IF b = 0 THEN a ELSE Gcd(b, a % b)
\* lcm without the division by the gcd
Lcm_Product(a, b) == (a * b) % 65536
\* lcm, in uint16_t
Lcm(a, b) == ((a * b) \div Gcd(a, b)) % 65536

RECURSIVE PatternLengthUpTo(_, _)
\* sendBar: the LCM loop over channels 0 .. i
PatternLengthUpTo(d, i) ==
  IF i < 0 THEN 1
  ELSE IF chan[d][i].enabled
       THEN Lcm(PatternLengthUpTo(d, i - 1), chan[d][i].barLength)
       ELSE PatternLengthUpTo(d, i - 1)
RECURSIVE ChannelMaskUpTo(_, _)
\* sendBar: the channel mask loop over channels 0 .. i
ChannelMaskUpTo(d, i) ==
  IF i < 0 THEN 0
  ELSE ChannelMaskUpTo(d, i - 1) + (IF chan[d][i].enabled THEN Pow2(i) ELSE 0)
\* MetronomeState::getTotalBeats
GetTotalBeats(d) == PatternLengthUpTo(d, CHANNEL_COUNT - 1)

BeatBody(d, beat) ==
  [type |-> MSG_BEAT, bpm |-> tempo[d], beatPosition |-> beat % GetTotalBeats(d),
   multiplierIdx |-> DefaultMultiplierIndex]
BarBody(d, bar) ==
  [type |-> MSG_BAR, globalBar |-> bar, channelCount |-> CHANNEL_COUNT,
   patternLength |-> PatternLengthUpTo(d, CHANNEL_COUNT - 1), activePattern |-> 0,
   channelMask |-> ChannelMaskUpTo(d, CHANNEL_COUNT - 1)]

\* the throttle with every tick sent only below 120 BPM
ClockDue_Below120(d, tick) ==
  \/ tempo[d] < 120 * TempoUnit
  \/ (tempo[d] <= 240 * TempoUnit /\ tick % 2 = 0)
  \/ tick % 4 = 0

\* onSync24: the throttle that decides whether tick is sent
ClockDue(d, tick) ==
  \/ tempo[d] <= 120 * TempoUnit
  \/ (tempo[d] <= 240 * TempoUnit /\ tick % 2 = 0)
  \/ tick % 4 = 0

\* onSync24
OnSync24(d, tick) ==
  /\ d \in up
  /\ IF isLeader[d] /\ ClockDue(d, tick)
       THEN SendMessage(d, <<ClockBody(d, tick)>>)
       ELSE NoSend
  /\ UNCHANGED <<now, up, state, priority, uClockTick, leaderVars, driftVars, loopVars, flagVars,
                 tempo, bpm, chan>>

\* onPPQN
OnPPQN(d, tick) ==
  /\ d \in up
  /\ IF isLeader[d] /\ tick % 96 = 0 /\ tick \div 96 # lastQuarterNote[d]
       THEN /\ lastQuarterNote' = [lastQuarterNote EXCEPT ![d] = tick \div 96]
            /\ SendMessage(d, <<BeatBody(d, tick \div 96)>>)
       ELSE UNCHANGED <<lastQuarterNote, sendVars>>
  /\ UNCHANGED <<now, up, state, priority, leaderVars, driftVars, loopVars,
                 patternChanged, initialPatternsSent, tempo, bpm, chan>>

\* onStep
OnStep(d, step) ==
  /\ d \in up
  /\ IF isLeader[d] THEN SendMessage(d, <<BarBody(d, step)>>) ELSE NoSend
  /\ UNCHANGED <<now, up, state, priority, uClockTick, leaderVars, driftVars, loopVars, flagVars,
                 tempo, bpm, chan>>

\* sendControl
SendControl(d, command, value) ==
  /\ d \in up /\ pc[d] = "loop"
  /\ SendMessage(d, <<ControlBody(command, 0, value)>>)
  /\ UNCHANGED <<now, up, state, priority, uClockTick, leaderVars, driftVars, loopVars,
                 flagVars, tempo, bpm, chan>>

\* the payload bytes behind the fields of the variant, as the sender leaves
\* them in the local SyncMessage: cleared by memset for CLOCK, BEAT and
\* PATTERN, none for BAR (the largest variant), and for CONTROL whatever the
\* memory of the local variable held before (mem)
TrailingBytes(body, mem) ==
  IF body.type \in {MSG_CLOCK, MSG_BEAT, MSG_PATTERN} THEN 0
  ELSE IF body.type = MSG_BAR THEN 0
  ELSE mem
\* the frame as esp_now_send puts it on the air
Wire(f, mem) == f @@ [reserved |-> TrailingBytes(f, mem)]
\* the frame as the receiver reads it through the SyncMessage pointer
Decode(w) == [k \in DOMAIN w \ {"reserved"} |-> w[k]]

\* notifyPatternChanged
NotifyPatternChanged(d, c) ==
  /\ d \in up /\ pc[d] = "loop"
  /\ patternChanged' = [patternChanged EXCEPT ![d] = TRUE]
  /\ UNCHANGED <<now, up, state, priority, uClockTick, leaderVars, driftVars, sendVars, loopVars,
                 initialPatternsSent, lastQuarterNote, tempo, bpm, chan>>

\* the sendPattern loop over every channel
AllPatterns(d) == [i \in 1 .. CHANNEL_COUNT |-> PatternBody(d, i - 1)]
\* update that sends the initial patterns on every call made as Leader
UpdateBodies_EveryLedCall(d) ==
  (IF patternChanged[d] THEN AllPatterns(d) ELSE << >>) \o
  (IF isLeader[d] THEN AllPatterns(d) ELSE << >>)
\* update: the frames one call sends
UpdateBodies(d) ==
  (IF patternChanged[d] THEN AllPatterns(d) ELSE << >>) \o
  (IF isLeader[d] /\ ~initialPatternsSent[d] THEN AllPatterns(d) ELSE << >>)

\* update that leaves the dirty mark set
Update_DirtyKept(d) ==
  /\ d \in up /\ pc[d] = "loop"
  /\ state' = [state EXCEPT ![d] = TRUE]
  /\ initialPatternsSent' = [initialPatternsSent EXCEPT ![d] = @ \/ isLeader[d]]
  /\ SendMessage(d, UpdateBodies(d))
  /\ UNCHANGED <<now, up, priority, uClockTick, leaderVars, driftVars, loopVars,
                 lastQuarterNote, tempo, bpm, chan, patternChanged>>

\* update
Update(d) ==
  /\ d \in up /\ pc[d] = "loop"
  /\ state' = [state EXCEPT ![d] = TRUE]
  /\ patternChanged' = [patternChanged EXCEPT ![d] = FALSE]
  /\ initialPatternsSent' = [initialPatternsSent EXCEPT ![d] = @ \/ isLeader[d]]
  /\ SendMessage(d, UpdateBodies(d))
  /\ UNCHANGED <<now, up, priority, uClockTick, leaderVars, driftVars, loopVars,
                 lastQuarterNote, tempo, bpm, chan>>

\* handleRotaryEncoder while the BPM item is being edited
HandleRotaryBpm(d, diff) ==
  /\ d \in up /\ pc[d] = "loop"
  /\ bpm' = [bpm EXCEPT ![d] = Constrain(@ + diff, MIN_GLOBAL_BPM, MAX_GLOBAL_BPM)]
  /\ tempo' = [tempo EXCEPT ![d] = bpm'[d] * TempoUnit]
  /\ UNCHANGED <<now, up, state, priority, uClockTick, leaderVars, driftVars, sendVars, loopVars,
                 flagVars, chan>>

\* handleRotaryEncoder while the bar length of channel c is being edited
HandleRotaryLength(d, c, diff) ==
  /\ d \in up /\ pc[d] = "loop"
  /\ chan' = [chan EXCEPT ![d][c] = SetBarLength(@, @.barLength + diff)]
  /\ UNCHANGED <<now, up, state, priority, uClockTick, leaderVars, driftVars, sendVars,
                 loopVars, flagVars, tempo, bpm>>

\* handleEncoderButton: a click on the toggle item of channel c
ToggleEnabled(d, c) ==
  /\ d \in up /\ pc[d] = "loop"
  /\ chan' = [chan EXCEPT ![d][c].enabled = ~@]
  /\ UNCHANGED <<now, up, state, priority, uClockTick, leaderVars, driftVars, sendVars,
                 loopVars, flagVars, tempo, bpm>>

\* MetronomeChannel::getMaxPattern: 2^barLength - 1
GetMaxPattern(ch) == Pow2(ch.barLength) - 1
\* the % of C on int operands: the remainder has the sign of the dividend
CRem(a, b) == IF a >= 0 THEN a % b ELSE 0 - ((0 - a) % b)
\* static_cast<uint16_t>
ToUint16(x) == x % 65536

\* handleRotaryEncoder while the pattern of channel c is being edited
HandleRotaryPattern(d, c, diff) ==
  /\ d \in up /\ pc[d] = "loop"
  /\ chan' = [chan EXCEPT ![d][c] =
               SetPattern(@, ToUint16(CRem(@.pattern + GetMaxPattern(@) + 1 + diff,
                                           GetMaxPattern(@) + 1)))]
  /\ UNCHANGED <<now, up, state, priority, uClockTick, leaderVars, driftVars, sendVars,
                 loopVars, flagVars, tempo, bpm>>

RECURSIVE AccumulatorAfter(_, _, _)
\* generateEuclidean: the accumulator after slots 0 .. i of a bar of n slots
AccumulatorAfter(n, k, i) ==
  IF i < 0 THEN 0
  ELSE LET a == AccumulatorAfter(n, k, i - 1) + k
       IN  IF a >= n THEN a - n ELSE a
RECURSIVE BucketBits(_, _, _)
\* generateEuclidean: the bits of the slots 0 .. i that were activated
BucketBits(n, k, i) ==
  IF i < 0 THEN 0
  ELSE BucketBits(n, k, i - 1)
         + (IF AccumulatorAfter(n, k, i - 1) + k >= n THEN Pow2(i) ELSE 0)
\* bit 0 forced active
WithFirstBeat(bits) == IF bits % 2 = 1 THEN bits ELSE bits + 1
\* MetronomeChannel::generateEuclidean
GenerateEuclidean(ch, k) ==
  [ch EXCEPT !.pattern = WithFirstBeat(BucketBits(ch.barLength, k, ch.barLength - 1))]

RECURSIVE CountBeats(_, _)
\* handleEncoderButton: the bits 0 .. i of pattern that are set
CountBeats(pattern, i) ==
  IF i < 0 THEN 0 ELSE CountBeats(pattern, i - 1) + ((pattern \div Pow2(i)) % 2)
\* handleEncoderButton: activeBeats, one plus the set bits 0 .. barLength - 2
ActiveBeats(ch) == 1 + CountBeats(ch.pattern, ch.barLength - 2)
\* handleEncoderButton: a long press on the pattern item of channel c
HandleLongPressPattern(d, c) ==
  /\ d \in up /\ pc[d] = "loop"
  /\ chan' = [chan EXCEPT ![d][c] = GenerateEuclidean(@, ActiveBeats(@))]
  /\ UNCHANGED <<now, up, state, priority, uClockTick, leaderVars, driftVars, sendVars,
                 loopVars, flagVars, tempo, bpm>>

\* ---------------------------------------------------------------- the clock
\* the clock calls back twice per quarter note in the model
HalfBeat == PPQN \div 2
\* the tick the clock reaches next: zero after a start, else one pulse on
NextPulse(d) ==
  IF uClockTick[d] = ClockStopped THEN 0 ELSE uClockTick[d] + HalfBeat
\* the clock reaches its next tick and runs the PPQN callback
ClockPulse(d) ==
  /\ uClockTick' = [uClockTick EXCEPT ![d] = NextPulse(d)]
  /\ OnPPQN(d, NextPulse(d))
\* the PPQN callback fires once more for the tick the clock is at
ClockPulseAgain(d) ==
  /\ uClockTick[d] # ClockStopped
  /\ UNCHANGED uClockTick
  /\ OnPPQN(d, uClockTick[d])
\* stop(): the tick counter is reset, the next start begins at tick zero
ClockStop(d) ==
  /\ d \in up /\ uClockTick[d] # ClockStopped
  /\ uClockTick' = [uClockTick EXCEPT ![d] = ClockStopped]
  /\ UNCHANGED <<now, up, state, priority, leaderVars, driftVars, sendVars, loopVars,
                 flagVars, tempo, bpm, chan>>

\* ------------------------------------------------------------ initial state
\* the priorities given with setPriority during setup
PriorityChoices == {5, 7}

\* every device starts as a Follower that knows no Leader
InitRoles ==
  /\ isLeader = [d \in Dev |-> FALSE]
  /\ currentLeaderID = [d \in Dev |-> NoDevice]
\* the clock starts at the default tempo
InitTempo ==
  /\ tempo = [d \in Dev |-> DEFAULT_BPM * TempoUnit]
  /\ bpm = [d \in Dev |-> DEFAULT_BPM]
\* the clock reads zero and no heartbeat was seen
InitClock ==
  /\ now = 0
  /\ lastLeaderHeartbeat = [d \in Dev |-> 0]
\* the members of WirelessSync after construction
InitMembers ==
  /\ leaderNegotiationActive = [d \in Dev |-> FALSE]
  /\ highestPrioritySeen = [d \in Dev |-> 0]
  /\ highestPriorityDevice = [d \in Dev |-> NoDevice]
  /\ sequenceNum = [d \in Dev |-> 0]
  /\ patternChanged = [d \in Dev |-> FALSE]
  /\ initialPatternsSent = [d \in Dev |-> FALSE]
  /\ latencyBuffer = [d \in Dev |-> [i \in 0 .. (LatencySlots - 1) |-> 0]]
  /\ latencyBufferIndex = [d \in Dev |-> 0]
  /\ averageLatency = [d \in Dev |-> 0]
  /\ lastReceivedTick = [d \in Dev |-> 0]
  /\ predictedNextTick = [d \in Dev |-> 0]
  /\ pc = [d \in Dev |-> "loop"]
  /\ negCaller = [d \in Dev |-> "none"]
  /\ delayStart = [d \in Dev |-> 0]
  /\ heard = [d \in Dev |-> FALSE]
  /\ net = {}
  /\ strays = 0
  /\ obs = NoObs
  /\ uClockTick = [d \in Dev |-> ClockStopped]
\* the main loop has called update() before, so the reference is stored
InitBound == state = [d \in Dev |-> TRUE]
\* no update() call was made yet
InitUnbound == state = [d \in Dev |-> FALSE]
\* every channel holds the settings the device starts with
InitChannels == chan = [d \in Dev |-> [c \in Channels |-> InitChannel(d, c)]]
\* no quarter note was sent yet
InitQuarter == lastQuarterNote = [d \in Dev |-> 0]
\* the drift correction factor starts at one
InitFactor == driftCorrection = [d \in Dev |-> DriftUnit]
InitDevices ==
  /\ InitClock /\ InitMembers /\ InitBound /\ InitChannels /\ InitRoles /\ InitTempo /\ InitQuarter
  /\ InitFactor

\* two devices are running; each was given a priority
Init ==
  /\ InitDevices
  /\ up = {1, 2}
  /\ priority \in [Dev -> PriorityChoices]
  /\ priority[1] # priority[2] /\ priority[3] = 5

\* ------------------------------------------------------- the environment
InFlight(d) == {x.f : x \in {y \in net : y.to = d}}
\* datagrams that reach device d without being in flight from a running
\* device: an echo of d's own broadcast (sender d) or a frame of a device
\* outside the group (sender 3), one of each type
StrayBodies ==
  { [type |-> MSG_CLOCK, isLeader |-> 1, clockTick |-> 1],
    [type |-> MSG_BEAT, bpm |-> 90 * TempoUnit, beatPosition |-> 0,
     multiplierIdx |-> DefaultMultiplierIndex],
    [type |-> MSG_BAR, globalBar |-> 1, channelCount |-> CHANNEL_COUNT,
     patternLength |-> 4, activePattern |-> 0, channelMask |-> 1],
    [type |-> MSG_PATTERN, channelId |-> 0, barLength |-> 5, pattern |-> 3,
     currentBeat |-> 0, enabled |-> 0],
    ControlBody(CMD_RESET, 1, 9) }
Stray(d) ==
  { b @@ [sequenceNum |-> 0, priority |-> 9, deviceID |-> s, timestamp |-> Micros] :
      b \in StrayBodies, s \in {d, 3} }
Lens == {SyncMessageSize, SyncMessageSize - 1}

\* what a specification records about the step it takes
Observe(o) == obs' = o
Quiet == obs' = NoObs
RxObs(d, m, len) ==
  [op |-> "onDataReceived", d |-> d, len |-> len, from |-> m.deviceID, type |-> m.type]
CallObs(name, d) == [op |-> name, d |-> d]

TimeLeft == now + TimeStepUs <= MaxTimeSteps * TimeStepUs
Budget(d, k) == sequenceNum[d] + k <= MaxSends
StraysLeft == strays < MaxStrays

\* ------------------------------------------------------- specifications
\* leader election over a lossy radio, with a bounded clock
Next ==
  \/ \E d \in Dev : Budget(d, 1) /\ NegotiateLeadership(d) /\ Quiet
                    /\ UNCHANGED strays
  \/ \E d \in Dev : Budget(d, 1) /\ CheckLeaderStatus(d)
                    /\ Observe(CallObs("checkLeaderStatus", d)) /\ UNCHANGED strays
  \/ \E d \in Dev : SettleEnd(d) /\ Quiet /\ UNCHANGED strays
  \/ \E d \in Dev : Budget(d, 1) /\ OnSync24(d, 1) /\ Quiet /\ UNCHANGED strays
  \/ \E d \in Dev : \E m \in InFlight(d) :
       OnDataReceived(d, m, SyncMessageSize) /\ Quiet /\ UNCHANGED strays
  \/ \E d \in Dev : \E m \in InFlight(d) : Lose(d, m) /\ Quiet /\ UNCHANGED strays
  \/ TimeLeft /\ AdvanceTime /\ Quiet /\ UNCHANGED strays

Spec == Init /\ [][Next]_vars

\* two devices with priorities 5 and 7 on a radio that loses nothing
NextNoLoss ==
  \/ \E d \in Dev : Budget(d, 1) /\ NegotiateLeadership(d) /\ Quiet
                    /\ UNCHANGED strays
  \/ \E d \in Dev : Budget(d, 1) /\ CheckLeaderStatus(d) /\ Quiet
                    /\ UNCHANGED strays
  \/ \E d \in Dev : SettleEnd(d) /\ Quiet /\ UNCHANGED strays
  \/ \E d \in Dev : \E m \in InFlight(d) :
       OnDataReceived(d, m, SyncMessageSize) /\ Quiet /\ UNCHANGED strays
  \/ TimeLeft /\ AdvanceTime /\ Quiet /\ UNCHANGED strays

SpecNoLoss == Init /\ [][NextNoLoss]_vars

\* one running device whose radio hands it datagrams of any origin
InitDevice ==
  /\ InitDevices
  /\ up = {1}
  /\ priority = [d \in Dev |-> 5]

NextDevice ==
  \/ \E d \in Dev : Budget(d, 1) /\ NegotiateLeadership(d)
                    /\ Observe(CallObs("negotiateLeadership", d)) /\ UNCHANGED strays
  \/ \E d \in Dev : Budget(d, 1) /\ CheckLeaderStatus(d)
                    /\ Observe(CallObs("checkLeaderStatus", d)) /\ UNCHANGED strays
  \/ \E d \in Dev : SettleEnd(d) /\ Observe(CallObs("settleEnd", d))
                    /\ UNCHANGED strays
  \/ \E d \in Dev, b \in BOOLEAN :
       SetAsLeader(d, b) /\ Observe(CallObs("setAsLeader", d)) /\ UNCHANGED strays
  \/ \E d \in Dev : \E m \in Stray(d), len \in Lens :
       /\ StraysLeft /\ OnDataReceived(d, m, len)
       /\ Observe(RxObs(d, m, len)) /\ strays' = strays + 1
  \/ TimeLeft /\ AdvanceTime /\ Quiet /\ UNCHANGED strays

SpecDevice == InitDevice /\ [][NextDevice]_vars

\* a clock that ticks at a tempo set by the encoder; the peer is out of
\* range, every frame to it is lost
BpmChoices == {119, 120, 121, 239, 240, 241}
BpmDiffs == {-500, 500}
InitThrottle ==
  /\ InitClock /\ InitMembers /\ InitBound /\ InitChannels /\ InitRoles /\ InitQuarter /\ InitFactor
  /\ up = {1, 2}
  /\ priority = [d \in Dev |-> 5]
  /\ \E b \in BpmChoices :
       /\ bpm = [d \in Dev |-> b]
       /\ tempo = [d \in Dev |-> b * TempoUnit]

NextThrottle ==
  \/ \E d \in Dev, diff \in BpmDiffs :
       HandleRotaryBpm(d, diff) /\ Quiet /\ UNCHANGED strays
  \/ \E d \in Dev, b \in BOOLEAN : SetAsLeader(d, b) /\ Quiet /\ UNCHANGED strays
  \/ \E d \in Dev, t \in 0 .. MaxTick :
       /\ net = {} /\ OnSync24(d, t)
       /\ Observe([op |-> "onSync24", d |-> d, tick |-> t]) /\ UNCHANGED strays
  \/ \E d \in Dev : \E m \in InFlight(d) : Lose(d, m) /\ Quiet /\ UNCHANGED strays

SpecThrottle == InitThrottle /\ [][NextThrottle]_vars

\* the Leader (device 3) has gone silent; two Followers, which heard its last
\* heartbeat at most one step ago, keep running their main loop, which polls
\* checkLeaderStatus many times within one clock step
InitLive ==
  /\ InitMembers /\ InitBound /\ InitChannels /\ InitTempo /\ InitQuarter /\ InitFactor /\ up = {1, 2}
  /\ now = TimeStepUs
  /\ lastLeaderHeartbeat \in [Dev -> {0, TimeStepUs \div 1000}]
  /\ lastLeaderHeartbeat[3] = 0
  /\ priority \in [Dev -> PriorityChoices]
  /\ priority[1] # priority[2] /\ priority[3] = 5
  /\ currentLeaderID = [d \in Dev |-> IF d \in up THEN 3 ELSE NoDevice]
  /\ isLeader = [d \in Dev |-> d = 3]

\* every Follower in its loop has polled checkLeaderStatus since the timeout
LoopPolled == \A d \in up : pc[d] = "loop" => ~IsLeaderTimedOut(d)
Radio ==
  \E d \in Dev : \E m \in InFlight(d) :
    (OnDataReceived(d, m, SyncMessageSize) \/ Lose(d, m)) /\ Quiet /\ UNCHANGED strays
PollLeader(d) == CheckLeaderStatus(d) /\ Quiet /\ UNCHANGED strays
DelayReturns(d) == SettleEnd(d) /\ Quiet /\ UNCHANGED strays
TimePasses == LoopPolled /\ AdvanceTime /\ Quiet /\ UNCHANGED strays

NextLive ==
  \/ \E d \in Dev : PollLeader(d)
  \/ \E d \in Dev : DelayReturns(d)
  \/ Radio
  \/ TimePasses

SpecLive ==
  /\ InitLive /\ [][NextLive]_vars
  /\ \A d \in Dev : WF_vars(PollLeader(d)) /\ WF_vars(DelayReturns(d))
  /\ WF_vars(Radio) /\ WF_vars(TimePasses)

\* a device whose clock runs while its role and its channels are edited; the
\* peer listens, and the radio sheds what it does not pick up
Clocked == {1}
\* _lastQuarterNote before the first quarter note: zero or no index at all
NoQuarter == MaxQuarter + 1
LengthDiffs == {2, -3}
InitBeat ==
  /\ InitClock /\ InitMembers /\ InitBound /\ InitChannels /\ InitTempo /\ InitFactor /\ up = {1, 2}
  /\ priority = [d \in Dev |-> 5]
  /\ currentLeaderID = [d \in Dev |-> NoDevice]
  /\ \E b \in BOOLEAN : isLeader = [d \in Dev |-> b /\ d \in Clocked]
  /\ \E q \in {0, NoQuarter} :
       lastQuarterNote = [d \in Dev |-> IF d \in Clocked THEN q ELSE 0]

PpqnObs(d, tick, fresh) ==
  [op |-> "onPPQN", d |-> d, tick |-> tick, fresh |-> fresh, leader |-> isLeader[d]]

NextBeat ==
  \/ \E d \in Clocked :
       /\ net = {} /\ NextPulse(d) <= MaxQuarter * PPQN /\ ClockPulse(d)
       /\ Observe(PpqnObs(d, NextPulse(d), TRUE)) /\ UNCHANGED strays
  \/ \E d \in Clocked :
       /\ net = {} /\ ClockPulseAgain(d)
       /\ Observe(PpqnObs(d, uClockTick[d], FALSE)) /\ UNCHANGED strays
  \/ \E d \in Clocked : ClockStop(d) /\ Quiet /\ UNCHANGED strays
  \/ \E d \in Clocked, b \in BOOLEAN :
       SetAsLeader(d, b) /\ Quiet /\ UNCHANGED strays
  \/ \E d \in Clocked, diff \in LengthDiffs :
       /\ chan[d][0].barLength + diff <= MaxBarLength
       /\ HandleRotaryLength(d, 0, diff) /\ Quiet /\ UNCHANGED strays
  \/ \E d \in Clocked, c \in Channels :
       ToggleEnabled(d, c) /\ Quiet /\ UNCHANGED strays
  \/ \E d \in Dev : \E m \in InFlight(d) : Lose(d, m) /\ Quiet /\ UNCHANGED strays

SpecBeat == InitBeat /\ [][NextBeat]_vars

\* a device whose step callback runs while its role and both of its channels
\* are edited; the peer listens
InitBar ==
  /\ InitClock /\ InitMembers /\ InitBound /\ InitChannels /\ InitTempo /\ InitQuarter /\ InitFactor
  /\ up = {1, 2}
  /\ priority = [d \in Dev |-> 5]
  /\ currentLeaderID = [d \in Dev |-> NoDevice]
  /\ \E b \in BOOLEAN : isLeader = [d \in Dev |-> b /\ d \in Clocked]

NextBar ==
  \/ \E d \in Clocked, step \in 0 .. MaxTick :
       /\ net = {} /\ OnStep(d, step)
       /\ Observe([op |-> "onStep", d |-> d, step |-> step]) /\ UNCHANGED strays
  \/ \E d \in Clocked, b \in BOOLEAN :
       SetAsLeader(d, b) /\ Quiet /\ UNCHANGED strays
  \/ \E d \in Clocked, c \in Channels, diff \in LengthDiffs :
       /\ chan[d][c].barLength + diff <= MaxBarLength
       /\ HandleRotaryLength(d, c, diff) /\ Quiet /\ UNCHANGED strays
  \/ \E d \in Clocked, c \in Channels :
       ToggleEnabled(d, c) /\ Quiet /\ UNCHANGED strays
  \/ \E d \in Dev : \E m \in InFlight(d) : Lose(d, m) /\ Quiet /\ UNCHANGED strays

SpecBar == InitBar /\ [][NextBar]_vars

\* a device whose main loop runs update() while the user edits its channels
\* and its role changes by setAsLeader or by a negotiation nobody answers
InitPattern ==
  /\ InitDevices /\ up = {1, 2}
  /\ priority = [d \in Dev |-> 5]

\* how often the device became Leader, and how many update() calls it made as
\* Leader, up to the step observed (both counted up to two)
Terms == IF obs = NoObs THEN 0 ELSE obs.terms
Led == IF obs = NoObs THEN 0 ELSE obs.led
UpTo2(n) == IF n > 2 THEN 2 ELSE n
PatObs(name, d) ==
  [op |-> name, d |-> d, dirty |-> (name = "update" /\ patternChanged[d]),
   terms |-> IF ~isLeader[d] /\ isLeader'[d] THEN UpTo2(Terms + 1) ELSE Terms,
   led |-> IF name = "update" /\ isLeader[d] THEN UpTo2(Led + 1) ELSE Led]

NextPattern ==
  \/ \E d \in Clocked, c \in Channels :
       /\ net = {} /\ NotifyPatternChanged(d, c)
       /\ Observe(PatObs("notifyPatternChanged", d)) /\ UNCHANGED strays
  \/ \E d \in Clocked :
       net = {} /\ Update(d) /\ Observe(PatObs("update", d)) /\ UNCHANGED strays
  \/ \E d \in Clocked, b \in BOOLEAN :
       net = {} /\ SetAsLeader(d, b) /\ Observe(PatObs("other", d))
       /\ UNCHANGED strays
  \/ \E d \in Clocked :
       net = {} /\ NegotiateLeadership(d) /\ Observe(PatObs("other", d))
       /\ UNCHANGED strays
  \/ \E d \in Clocked :
       SettleEnd(d) /\ Observe(PatObs("other", d)) /\ UNCHANGED strays
  \/ \E d \in Clocked, diff \in LengthDiffs :
       /\ net = {} /\ chan[d][0].barLength + diff <= MaxBarLength
       /\ HandleRotaryLength(d, 0, diff) /\ Observe(PatObs("other", d))
       /\ UNCHANGED strays
  \/ \E d \in Clocked :
       net = {} /\ ToggleEnabled(d, 1) /\ Observe(PatObs("other", d))
       /\ UNCHANGED strays
  \/ \E d \in Dev, e \in Clocked :
       LoseAll(d) /\ Observe(PatObs("other", e)) /\ UNCHANGED strays
  \/ \E e \in Clocked :
       TimeLeft /\ AdvanceTime /\ Observe(PatObs("other", e)) /\ UNCHANGED strays

SpecPattern == InitPattern /\ [][NextPattern]_vars

\* a Follower that is handed CLOCK and BEAT frames of a Leader out of the
\* group (device 3); each CLOCK frame is stamped so that it arrives a chosen
\* number of microseconds off the expected tick time
Biases == {150, -150, 101, 100, -100}
BeatOffsets == {50, 51, -51}
\* correction factors a run of biased frames leads to
DriftChoices == {DriftMin, DriftMin + 1, DriftUnit, DriftMax - 1, DriftMax}
ClockInputs ==
  {<<[type |-> MSG_CLOCK, isLeader |-> 1, clockTick |-> 5], b>> : b \in Biases}
  \cup {<<[type |-> MSG_CLOCK, isLeader |-> 1, clockTick |-> 0], 150>>,
        <<[type |-> MSG_CLOCK, isLeader |-> 0, clockTick |-> 5], 150>>}
BeatInputs(d) ==
  {<<[type |-> MSG_BEAT, bpm |-> tempo[d] + k, beatPosition |-> 0,
      multiplierIdx |-> DefaultMultiplierIndex], 0>> : k \in BeatOffsets}
\* the header of a frame of device 3 sent so as to arrive bias microseconds
\* after the tick time device d expects
Stamp(d, body, bias) ==
  body @@ [sequenceNum |-> 0, priority |-> 5, deviceID |-> 3,
           timestamp |-> (now + TimeWrapUs - TickInterval(tempo[d]) - bias)
                           % TimeWrapUs]
DriftObs(d, m, bias) ==
  RxObs(d, m, SyncMessageSize) @@
    [f |-> m, bias |-> bias, prior |-> driftCorrection[d],
     primed |-> lastReceivedTick[d] # 0]

InitDrift ==
  /\ InitClock /\ InitMembers /\ InitBound /\ InitChannels /\ InitRoles /\ InitTempo /\ InitQuarter
  /\ up = {1}
  /\ priority = [d \in Dev |-> 5]
  /\ \E f \in DriftChoices : driftCorrection = [d \in Dev |-> f]

NextDrift ==
  \/ \E d \in Clocked : \E i \in ClockInputs :
       /\ StraysLeft /\ OnDataReceived(d, Stamp(d, i[1], i[2]), SyncMessageSize)
       /\ Observe(DriftObs(d, Stamp(d, i[1], i[2]), i[2])) /\ strays' = strays + 1
  \/ \E d \in Clocked : \E i \in BeatInputs(d) :
       /\ StraysLeft /\ OnDataReceived(d, Stamp(d, i[1], i[2]), SyncMessageSize)
       /\ Observe(DriftObs(d, Stamp(d, i[1], i[2]), i[2])) /\ strays' = strays + 1
  \/ TimeLeft /\ AdvanceTime /\ Quiet /\ UNCHANGED strays

SpecDrift == InitDrift /\ [][NextDrift]_vars

\* a Follower that is handed PATTERN frames of a Leader out of the group
\* while the user turns the bar length of its first channel
PatternSettings ==
  {<<1, 0>>, <<1, 1>>, <<3, 1>>, <<3, 5>>, <<5, 1>>, <<5, 5>>, <<5, 19>>}
PatternInputs ==
  {[type |-> MSG_PATTERN, channelId |-> 0, barLength |-> p[1], pattern |-> p[2],
    currentBeat |-> 0, enabled |-> e] : p \in PatternSettings, e \in {0, 1}}
  \cup {[type |-> MSG_PATTERN, channelId |-> c, barLength |-> 5, pattern |-> 19,
         currentBeat |-> 0, enabled |-> 0] : c \in {1, CHANNEL_COUNT}}
PatternRxObs(d, m) == RxObs(d, m, SyncMessageSize) @@ [f |-> m]

InitPatternRx ==
  /\ InitDevices /\ up = {1}
  /\ priority = [d \in Dev |-> 5]

NextPatternRx ==
  \/ \E d \in Clocked : \E b \in PatternInputs :
       /\ StraysLeft /\ OnDataReceived(d, Stamp(d, b, 0), SyncMessageSize)
       /\ Observe(PatternRxObs(d, Stamp(d, b, 0))) /\ strays' = strays + 1
  \/ \E d \in Clocked, diff \in LengthDiffs :
       /\ chan[d][0].barLength + diff <= MaxBarLength
       /\ HandleRotaryLength(d, 0, diff) /\ Quiet /\ UNCHANGED strays

SpecPatternRx == InitPatternRx /\ [][NextPatternRx]_vars

\* a device from its start: init() has registered the receive callback, the
\* main loop has not yet called update(), and PATTERN frames arrive
InitBoot ==
  /\ InitClock /\ InitMembers /\ InitUnbound /\ InitChannels /\ InitRoles
  /\ InitTempo /\ InitQuarter /\ InitFactor
  /\ up = {1}
  /\ priority = [d \in Dev |-> 5]

NextBoot ==
  \/ \E d \in Clocked : \E b \in PatternInputs :
       /\ StraysLeft /\ OnDataReceived(d, Stamp(d, b, 0), SyncMessageSize)
       /\ Observe(PatternRxObs(d, Stamp(d, b, 0))) /\ strays' = strays + 1
  \/ \E d \in Clocked :
       Budget(d, CHANNEL_COUNT) /\ Update(d) /\ Observe(CallObs("update", d))
       /\ UNCHANGED strays
  \/ \E d \in Clocked, b \in BOOLEAN :
       SetAsLeader(d, b) /\ Observe(CallObs("setAsLeader", d)) /\ UNCHANGED strays

SpecBoot == InitBoot /\ [][NextBoot]_vars

\* a device, Follower or Leader, that is handed the CLOCK and BEAT frames of
\* another Leader (device 3), starting from a correction factor of one
\* the tempo last set by a BEAT frame taken over (the default before any)
LocalTempo == IF obs = NoObs THEN DEFAULT_BPM * TempoUnit ELSE obs.local
TempoObs(d, m, bias) ==
  DriftObs(d, m, bias) @@
    [local |-> IF m.type = MSG_BEAT /\ TempoAfterBeat(d, m) # tempo[d]
                 THEN m.bpm ELSE LocalTempo]

InitTempoRx ==
  /\ InitClock /\ InitMembers /\ InitBound /\ InitChannels /\ InitTempo /\ InitQuarter /\ InitFactor
  /\ up = {1}
  /\ priority = [d \in Dev |-> 5]
  /\ currentLeaderID = [d \in Dev |-> NoDevice]
  /\ \E b \in BOOLEAN : isLeader = [d \in Dev |-> b /\ d \in Clocked]

NextTempoRx ==
  \/ \E d \in Clocked : \E i \in ClockInputs :
       /\ StraysLeft /\ OnDataReceived(d, Stamp(d, i[1], i[2]), SyncMessageSize)
       /\ Observe(TempoObs(d, Stamp(d, i[1], i[2]), i[2])) /\ strays' = strays + 1
  \/ \E d \in Clocked : \E i \in BeatInputs(d) :
       /\ StraysLeft /\ OnDataReceived(d, Stamp(d, i[1], i[2]), SyncMessageSize)
       /\ Observe(TempoObs(d, Stamp(d, i[1], i[2]), i[2])) /\ strays' = strays + 1

SpecTempoRx == InitTempoRx /\ [][NextTempoRx]_vars

\* a Follower whose user edits bar length and pattern of the first channel
\* and asks for a Euclidean pattern, while PATTERN frames of a Leader out of
\* the group arrive, some with values out of range
EditLengths == {4, 8}
PatternDiffs == {1, -300}
EditFrames ==
  {[type |-> MSG_PATTERN, channelId |-> 0, barLength |-> p[1], pattern |-> p[2],
    currentBeat |-> 0, enabled |-> 1] :
     p \in {<<0, 1>>, <<MAX_BEATS + 4, 1>>, <<3, 19>>, <<5, 19>>}}
EuclidObs(d, c) ==
  [op |-> "generateEuclidean", d |-> d, n |-> chan[d][c].barLength,
   k |-> ActiveBeats(chan[d][c])]

InitEdit ==
  /\ InitClock /\ InitMembers /\ InitBound /\ InitRoles /\ InitTempo /\ InitQuarter
  /\ InitFactor /\ up = {1}
  /\ priority = [d \in Dev |-> 5]
  /\ \E n \in EditLengths :
       chan = [d \in Dev |-> [c \in Channels |->
                 IF d \in Clocked /\ c = 0
                   THEN [InitChannel(d, c) EXCEPT !.barLength = n]
                   ELSE InitChannel(d, c)]]

NextEdit ==
  \/ \E d \in Clocked, diff \in LengthDiffs :
       /\ chan[d][0].barLength + diff <= MaxBarLength
       /\ HandleRotaryLength(d, 0, diff) /\ Observe(CallObs("setBarLength", d))
       /\ UNCHANGED strays
  \/ \E d \in Clocked, diff \in PatternDiffs :
       /\ chan[d][0].barLength <= MaxPatternBits
       /\ HandleRotaryPattern(d, 0, diff) /\ Observe(CallObs("setPattern", d))
       /\ UNCHANGED strays
  \/ \E d \in Clocked :
       /\ chan[d][0].barLength <= MaxPatternBits
       /\ HandleLongPressPattern(d, 0) /\ Observe(EuclidObs(d, 0))
       /\ UNCHANGED strays
  \/ \E d \in Clocked : \E b \in EditFrames :
       /\ StraysLeft /\ OnDataReceived(d, Stamp(d, b, 0), SyncMessageSize)
       /\ Observe(PatternRxObs(d, Stamp(d, b, 0))) /\ strays' = strays + 1

SpecEdit == InitEdit /\ [][NextEdit]_vars

\* a device that sends frames of every type; the memory its local SyncMessage
\* is built in holds zeros or what an earlier call left there
StackBytes == {0, 165}
ControlInputs == {<<CMD_RESET, 0>>, <<CMD_OTHER, 7>>}
\* the frames of device d the step puts on the air, as sent
WireObs(d, mem) ==
  [op |-> "send", d |-> d, seq |-> sequenceNum[d], at |-> now,
   wire |-> {Wire(x.f, mem) : x \in {y \in net' \ net : y.f.deviceID = d}}]

InitWire ==
  /\ InitClock /\ InitMembers /\ InitBound /\ InitChannels /\ InitTempo /\ InitQuarter
  /\ InitFactor /\ up = {1, 2}
  /\ priority = [d \in Dev |-> 5]
  /\ currentLeaderID = [d \in Dev |-> NoDevice]
  /\ \E b \in BOOLEAN : isLeader = [d \in Dev |-> b /\ d \in Clocked]

NextWire ==
  \/ \E d \in Clocked, t \in 0 .. MaxTick, mem \in StackBytes :
       /\ net = {} /\ Budget(d, 1) /\ OnSync24(d, t)
       /\ Observe(WireObs(d, mem)) /\ UNCHANGED strays
  \/ \E d \in Clocked, mem \in StackBytes :
       /\ net = {} /\ Budget(d, 1) /\ NextPulse(d) <= MaxQuarter * PPQN
       /\ ClockPulse(d) /\ Observe(WireObs(d, mem)) /\ UNCHANGED strays
  \/ \E d \in Clocked, step \in 0 .. 1, mem \in StackBytes :
       /\ net = {} /\ Budget(d, 1) /\ OnStep(d, step)
       /\ Observe(WireObs(d, mem)) /\ UNCHANGED strays
  \/ \E d \in Clocked, c \in Channels :
       NotifyPatternChanged(d, c) /\ Quiet /\ UNCHANGED strays
  \/ \E d \in Clocked, mem \in StackBytes :
       /\ net = {} /\ Budget(d, Len(UpdateBodies(d))) /\ Update(d)
       /\ Observe(WireObs(d, mem)) /\ UNCHANGED strays
  \/ \E d \in Clocked, i \in ControlInputs, mem \in StackBytes :
       /\ net = {} /\ Budget(d, 1) /\ SendControl(d, i[1], i[2])
       /\ Observe(WireObs(d, mem)) /\ UNCHANGED strays
  \/ \E d \in Clocked, mem \in StackBytes :
       /\ net = {} /\ Budget(d, 1) /\ NegotiateLeadership(d)
       /\ Observe(WireObs(d, mem)) /\ UNCHANGED strays
  \/ \E d \in Clocked : SettleEnd(d) /\ Quiet /\ UNCHANGED strays
  \/ \E d \in Dev : LoseAll(d) /\ Quiet /\ UNCHANGED strays
  \/ TimeLeft /\ AdvanceTime /\ Quiet /\ UNCHANGED strays

SpecWire == InitWire /\ [][NextWire]_vars

\* a candidate (device 2, priority 5) that is handed CONTROL frames of devices
\* 1 and 3 with lower, equal and higher priority, inside and outside of the
\* negotiations it runs; the frames arrive between any two lines of
\* startLeaderNegotiation
Candidates == {2}
ElectPriorities == {4, 5, 7}
ElectInputs ==
  {ControlBody(CMD_RESET, 1, p) @@
     [sequenceNum |-> 0, priority |-> p, deviceID |-> s, timestamp |-> Micros] :
       p \in ElectPriorities, s \in {1, 3}}
  \cup {ControlBody(c[1], c[2], 7) @@
          [sequenceNum |-> 0, priority |-> 7, deviceID |-> 3, timestamp |-> Micros] :
            c \in {<<CMD_OTHER, 1>>, <<CMD_RESET, 0>>}}
\* one identity outranks another: higher priority, or equal priority and the
\* lower device id
Outranks(a, b) == a[1] > b[1] \/ (a[1] = b[1] /\ a[2] < b[2])
\* the window of a negotiation: from the tracker being set to the local
\* identity to the return of the delay
InWindow(d) == pc[d] \in {"line333", "delay"}
\* the best of the local identity and of the negotiation frames processed in
\* the window, as far as the window has run
BestSoFar == IF obs = NoObs THEN <<0, NoDevice>> ELSE obs.best
ElectRxObs(d, m) ==
  RxObs(d, m, SyncMessageSize) @@
    [f |-> m,
     best |-> IF /\ IsNegotiation(m) /\ InWindow(d)
                 /\ Outranks(<<m.priority, m.deviceID>>, BestSoFar)
                THEN <<m.priority, m.deviceID>> ELSE BestSoFar]
ElectObs(name, d) ==
  [op |-> name, d |-> d,
   best |-> IF name = "negotiationDeviceSet" THEN <<priority[d], d>> ELSE BestSoFar]

InitElect ==
  /\ InitDevices /\ up = Candidates
  /\ priority = [d \in Dev |-> 5]

NextElect ==
  \/ \E d \in Candidates :
       /\ Budget(d, 1) /\ NegotiationFlagSet(d)
       /\ Observe(ElectObs("negotiationFlagSet", d)) /\ UNCHANGED strays
  \/ \E d \in Candidates :
       /\ NegotiationSeenSet(d)
       /\ Observe(ElectObs("negotiationSeenSet", d)) /\ UNCHANGED strays
  \/ \E d \in Candidates :
       /\ NegotiationDeviceSet(d)
       /\ Observe(ElectObs("negotiationDeviceSet", d)) /\ UNCHANGED strays
  \/ \E d \in Candidates :
       /\ NegotiationSent(d)
       /\ Observe(ElectObs("negotiationSent", d)) /\ UNCHANGED strays
  \/ \E d \in Candidates :
       SettleEnd(d) /\ Observe(ElectObs("settleEnd", d)) /\ UNCHANGED strays
  \/ \E d \in Candidates : \E m \in ElectInputs :
       /\ StraysLeft /\ OnDataReceived(d, m, SyncMessageSize)
       /\ Observe(ElectRxObs(d, m)) /\ strays' = strays + 1
  \/ \E d \in Candidates :
       /\ TimeLeft /\ AdvanceTime /\ Observe(ElectObs("time", d))
       /\ UNCHANGED strays

SpecElect == InitElect /\ [][NextElect]_vars

\* ------------------------------------------------------------- the claims
\* the step in which the delay(500) of device d returns
SettleStep(d) == pc[d] = "delay" /\ pc'[d] = "loop"
RanNegotiation(d) == negCaller[d] # "none" /\ pc[d] = "loop"

\* C1: with priorities 5 and 7 and no frame loss, once both devices have run
\* a leader negotiation the priority-7 device is Leader and the priority-5
\* device is Follower.
C1_HigherPriorityLeads ==
  (\A d \in up : RanNegotiation(d)) /\ net = {}
    => \A d \in up : isLeader[d] <=> (priority[d] = 7)

\* C3: a checkLeaderStatus call starts a negotiation exactly when the device
\* is a Follower and millis() - _lastLeaderHeartbeat exceeds the timeout; a
\* Leader and a Follower within the timeout never start one this way.
C3_AutoNegotiationExactlyOnTimeout ==
  [][\A d \in Dev :
       (obs'.op = "checkLeaderStatus" /\ obs'.d = d)
         => ((pc'[d] = "delay" /\ leaderNegotiationActive'[d])
              <=> (~isLeader[d]
                   /\ Millis - lastLeaderHeartbeat[d] > LeaderTimeoutMs))]_vars
C3_Witness ==
  \E d \in up : /\ obs = CallObs("checkLeaderStatus", d)
                /\ pc[d] = "delay" /\ negCaller[d] = "checkLeaderStatus"
                /\ Millis - lastLeaderHeartbeat[d] > LeaderTimeoutMs

\* C5: when the delay of a negotiation returns, the device is Leader if and
\* only if the tracked highest-priority device is itself, Follower otherwise,
\* and the negotiation-active flag is cleared in both cases.
C5_SettleDecidesByTrackedDevice ==
  [][\A d \in Dev :
       SettleStep(d) => /\ isLeader'[d] <=> (highestPriorityDevice[d] = d)
                        /\ ~leaderNegotiationActive'[d]]_vars
C5_Witness ==
  \E d \in up : /\ RanNegotiation(d) /\ ~isLeader[d]
                /\ highestPriorityDevice[d] # d /\ ~leaderNegotiationActive[d]

\* C6: while a negotiation is in its settle window the main loop can still run
\* the clock callbacks, update() and checkLeaderStatus.
C6_LoopServicedDuringSettle ==
  \A d \in up : leaderNegotiationActive[d]
    => /\ ENABLED OnSync24(d, 1)
       /\ ENABLED Update(d)
       /\ ENABLED CheckLeaderStatus(d)

\* C7: a candidate that processes no negotiation frame during its settle
\* window (every such frame was lost) ends the window as Leader, so two
\* candidates can be Leader at the same time.
C7_UnheardCandidateLeads ==
  [][\A d \in Dev : SettleStep(d) /\ ~heard[d] => isLeader'[d]]_vars
C7_Witness ==
  /\ \A d \in {1, 2} : RanNegotiation(d) /\ isLeader[d] /\ ~heard[d]
  /\ delayStart[1] = delayStart[2]

\* everything device d keeps about leader, drift, tempo and patterns
DeviceState(d) ==
  <<isLeader[d], leaderNegotiationActive[d], highestPrioritySeen[d],
    highestPriorityDevice[d], currentLeaderID[d], lastLeaderHeartbeat[d],
    latencyBuffer[d], latencyBufferIndex[d], averageLatency[d],
    driftCorrection[d], lastReceivedTick[d], predictedNextTick[d],
    tempo[d], chan[d]>>
RxStep(d) == obs'.op = "onDataReceived" /\ obs'.d = d

\* C4: a Leader stops being Leader only in a setAsLeader call or when the
\* delay of a negotiation started with negotiateLeadership returns; neither
\* the passing of time nor any inbound frame ends the role.
C4_LeaderLeavesOnlyByExplicitCall ==
  [][\A d \in Dev :
       isLeader[d] /\ ~isLeader'[d]
         => \/ obs' = CallObs("setAsLeader", d)
            \/ (obs' = CallObs("settleEnd", d)
                /\ negCaller[d] = "negotiateLeadership")]_vars
C4_Witness ==
  \E d \in up : /\ isLeader[d] /\ pc[d] = "loop"
                /\ obs = [op |-> "onDataReceived", d |-> d, len |-> SyncMessageSize,
                          from |-> 3, type |-> MSG_CONTROL]
                /\ Millis - lastLeaderHeartbeat[d] > LeaderTimeoutMs

\* C8: a datagram whose length is not the frame size changes nothing of the
\* receiving device: leader state, election tracker, drift model, tempo and
\* channel patterns stay as they were.
C8_WrongSizeChangesNothing ==
  [][\A d \in Dev :
       RxStep(d) /\ obs'.len # SyncMessageSize
         => DeviceState(d)' = DeviceState(d)]_vars
C8_Witness ==
  \E d \in up : /\ ~isLeader[d]
                /\ obs = [op |-> "onDataReceived", d |-> d,
                          len |-> SyncMessageSize - 1, from |-> 3,
                          type |-> MSG_PATTERN]

\* C9: a frame whose header deviceID is the receiver's own id changes nothing
\* of the receiving device, whatever its type, and is counted neither as a
\* leader heartbeat nor as a negotiation frame.
C9_OwnFrameChangesNothing ==
  [][\A d \in Dev :
       RxStep(d) /\ obs'.from = d
         => DeviceState(d)' = DeviceState(d) /\ heard'[d] = heard[d]]_vars
C9_Witness ==
  \E d \in up : /\ leaderNegotiationActive[d]
                /\ obs = [op |-> "onDataReceived", d |-> d, len |-> SyncMessageSize,
                          from |-> d, type |-> MSG_CONTROL]

\* the step is an onSync24 call on device d
Sync24Step(d) == obs'.op = "onSync24" /\ obs'.d = d
\* the step puts a CLOCK frame of device d for the tick of the call on the air
EmitsClock(d) ==
  \E x \in net' \ net : /\ x.f.deviceID = d /\ x.f.type = MSG_CLOCK
                        /\ x.f.clockTick = obs'.tick /\ x.f.isLeader = 1

\* C10 (as stated): a Leader sends every tick below 120 BPM, every second
\* tick from 120 to 240 BPM and every fourth tick above 240 BPM.
C10_ThrottleAsStated ==
  [][\A d \in Dev :
       Sync24Step(d) /\ isLeader[d]
         => (EmitsClock(d) <=>
               IF tempo[d] < 120 * TempoUnit THEN TRUE
               ELSE IF tempo[d] <= 240 * TempoUnit THEN obs'.tick % 2 = 0
               ELSE obs'.tick % 4 = 0)]_vars

\* C10 (amended): a Leader sends every tick at or below 120 BPM, every second
\* tick above 120 and up to 240 BPM, and every fourth tick above 240 BPM.
C10_ThrottleByTempo ==
  [][\A d \in Dev :
       Sync24Step(d) /\ isLeader[d]
         => (EmitsClock(d) <=>
               IF tempo[d] <= 120 * TempoUnit THEN TRUE
               ELSE IF tempo[d] <= 240 * TempoUnit THEN obs'.tick % 2 = 0
               ELSE obs'.tick % 4 = 0)]_vars
C10_Witness ==
  \E d \in up : /\ isLeader[d] /\ tempo[d] = 120 * TempoUnit
                /\ obs = [op |-> "onSync24", d |-> d, tick |-> 1]
                /\ \E x \in net : x.f.deviceID = d /\ x.f.type = MSG_CLOCK
                                  /\ x.f.clockTick = 1

TotalPatternLength(d) ==
  CHOOSE n \in 1 .. (MAX_BEATS * MAX_BEATS) :
    /\ \A c \in Channels : chan[d][c].enabled => n % chan[d][c].barLength = 0
    /\ \A k \in 1 .. (n - 1) :
         \E c \in Channels : chan[d][c].enabled /\ k % chan[d][c].barLength # 0
\* the step is a call of the PPQN callback on device d
PpqnStep(d) == obs'.op = "onPPQN" /\ obs'.d = d
\* the BEAT frames of device d the step puts on the air
BeatsEmitted(d) == {x \in net' \ net : x.f.deviceID = d /\ x.f.type = MSG_BEAT}

\* C11: on a Leader, the call that reaches quarter note q (tick = 96 q, q = 0
\* and restarts included) sends one BEAT frame with
\* beatPosition = q mod totalPatternLength < totalPatternLength, and a further
\* call for the same tick sends none.
C11_OneBeatPerQuarter ==
  [][\A d \in Dev :
       PpqnStep(d) /\ isLeader[d] /\ obs'.tick % PPQN = 0
         => IF obs'.fresh
              THEN /\ Cardinality(BeatsEmitted(d)) = Cardinality(up \ {d})
                   /\ \A x \in BeatsEmitted(d) :
                        /\ x.f.beatPosition
                             = (obs'.tick \div PPQN) % TotalPatternLength(d)
                        /\ x.f.beatPosition < TotalPatternLength(d)
              ELSE (obs.op = "onPPQN" /\ obs.d = d /\ obs.leader)
                     => BeatsEmitted(d) = {}]_vars

\* the step is a call of the step callback on device d
StepStep(d) == obs'.op = "onStep" /\ obs'.d = d
\* the BAR frames of device d the step puts on the air
BarsEmitted(d) == {x \in net' \ net : x.f.deviceID = d /\ x.f.type = MSG_BAR}
\* bit i of mask
Bit(mask, i) == (mask \div Pow2(i)) % 2

\* C12: every BAR frame a Leader sends carries the least common multiple of
\* the bar lengths of the channels enabled at that moment (1 if none is) as
\* patternLength, and a channelMask whose bit i is set exactly if channel i is
\* enabled.
C12_BarCarriesLcmAndMask ==
  [][\A d \in Dev :
       StepStep(d) /\ isLeader[d]
         => /\ Cardinality(BarsEmitted(d)) = Cardinality(up \ {d})
            /\ \A x \in BarsEmitted(d) :
                 /\ x.f.patternLength = TotalPatternLength(d)
                 /\ \A c \in Channels :
                      Bit(x.f.channelMask, c) = 1 <=> chan[d][c].enabled]_vars
C12_Witness ==
  \E d \in up :
    /\ obs.op = "onStep" /\ obs.d = d
    /\ chan[d][0].enabled /\ chan[d][0].barLength = 4
    /\ chan[d][1].enabled /\ chan[d][1].barLength = 6
    /\ \E x \in net : x.f.deviceID = d /\ x.f.type = MSG_BAR
                        /\ x.f.patternLength = 12 /\ x.f.channelMask = 3

\* the step is a call of update() on device d
UpdateStep(d) == obs'.op = "update" /\ obs'.d = d
\* the PATTERN frames of device d for channel c the step puts on the air
PatternsEmitted(d, c) ==
  {x \in net' \ net : /\ x.f.deviceID = d /\ x.f.type = MSG_PATTERN
                       /\ x.f.channelId = c}
\* the frame carries the present settings of channel c of device d
CarriesChannel(x, d, c) ==
  /\ x.f.barLength = chan[d][c].barLength
  /\ x.f.pattern = chan[d][c].pattern
  /\ x.f.currentBeat = chan[d][c].currentBeat
  /\ (x.f.enabled = 1) <=> chan[d][c].enabled
\* this update() is the first the device makes as Leader
FirstLedUpdate(d) == isLeader[d] /\ Led = 0

\* C13: notifyPatternChanged marks the channels dirty; the next update() sends
\* a PATTERN frame for the notified channel with its present barLength,
\* pattern, currentBeat and enabled values and clears the mark; an update()
\* that finds no mark sends no PATTERN frame on account of a change.
C13_DirtyChannelSentOnce ==
  [][\A d \in Dev :
       /\ (obs'.op = "notifyPatternChanged" /\ obs'.d = d) => patternChanged'[d]
       /\ UpdateStep(d) =>
            /\ ~patternChanged'[d]
            /\ patternChanged[d] =>
                 \A c \in Channels :
                   /\ PatternsEmitted(d, c) # {}
                   /\ \A x \in PatternsEmitted(d, c) : CarriesChannel(x, d, c)
            /\ ~patternChanged[d] /\ ~FirstLedUpdate(d) =>
                 \A c \in Channels : PatternsEmitted(d, c) = {}]_vars
C13_Witness ==
  \E d \in up :
    /\ obs.op = "update" /\ obs.d = d /\ obs.dirty /\ ~isLeader[d]
    /\ chan[d][0].barLength = 6 /\ ~chan[d][1].enabled
    /\ \A c \in Channels :
         \E x \in net : /\ x.f.deviceID = d /\ x.f.type = MSG_PATTERN
                         /\ x.f.channelId = c /\ CarriesChannel(x, d, c)

\* C14: the first update() a device makes after it first became Leader, by
\* setAsLeader(true) or by winning a negotiation, sends one PATTERN frame per
\* channel of its own accord (next to those a dirty mark calls for); later
\* update() calls of that leadership send none of their own accord.
C14_InitialPatternsOnce ==
  [][\A d \in Dev :
       UpdateStep(d) /\ isLeader[d] /\ Terms = 1
         => \A c \in Channels :
              Cardinality(PatternsEmitted(d, c))
                = ((IF patternChanged[d] THEN 1 ELSE 0)
                   + (IF Led = 0 THEN 1 ELSE 0)) * Cardinality(up \ {d})]_vars
C14_Witness ==
  \E d \in up :
    /\ obs.op = "update" /\ obs.d = d /\ ~obs.dirty /\ obs.terms = 1 /\ obs.led = 1
    /\ isLeader[d] /\ negCaller[d] = "negotiateLeadership"
    /\ \A c \in Channels :
         Cardinality({x \in net : /\ x.f.deviceID = d /\ x.f.type = MSG_PATTERN
                                  /\ x.f.channelId = c}) = 1

\* the step hands device d a leader CLOCK frame (isLeader flag set)
LeaderClockStep(d) ==
  RxStep(d) /\ obs'.type = MSG_CLOCK /\ obs'.f.isLeader = 1
\* one step of the correction factor in the direction of the drift, kept
\* within [0.9, 1.1]
Nudged(f, bias) ==
  IF bias > DriftThresholdUs THEN (IF f + 1 > DriftMax THEN DriftMax ELSE f + 1)
  ELSE IF bias < 0 - DriftThresholdUs
       THEN (IF f - 1 < DriftMin THEN DriftMin ELSE f - 1)
  ELSE f

\* C15: a Follower that receives a CLOCK frame with the isLeader flag set
\* records the arrival time as the leader heartbeat and the sender as the
\* current leader and passes the frame to drift correction; a CLOCK frame
\* with the flag clear changes neither the heartbeat time nor the leader id.
C15_LeaderClockIsHeartbeat ==
  [][\A d \in Dev :
       RxStep(d) /\ obs'.type = MSG_CLOCK /\ ~isLeader[d]
         => IF obs'.f.isLeader = 1
              THEN /\ lastLeaderHeartbeat'[d] = now \div 1000
                   /\ currentLeaderID'[d] = obs'.from
                   /\ lastReceivedTick'[d] = obs'.f.clockTick
              ELSE /\ lastLeaderHeartbeat'[d] = lastLeaderHeartbeat[d]
                   /\ currentLeaderID'[d] = currentLeaderID[d]]_vars
C15_Witness ==
  \E d \in up :
    /\ ~isLeader[d] /\ obs.op = "onDataReceived" /\ obs.d = d
    /\ obs.type = MSG_CLOCK /\ obs.f.isLeader = 1
    /\ currentLeaderID[d] = 3 /\ lastLeaderHeartbeat[d] = 2 * (TimeStepUs \div 1000)
    /\ now = 2 * TimeStepUs /\ lastReceivedTick[d] = 5

\* C16: on a BEAT frame a Follower takes over the carried BPM exactly when it
\* differs from its present tempo by more than 0.5 BPM, and keeps its tempo
\* otherwise.
C16_BeatHysteresis ==
  [][\A d \in Dev :
       RxStep(d) /\ obs'.type = MSG_BEAT /\ ~isLeader[d]
         => tempo'[d] = IF obs'.f.bpm - tempo[d] > TempoUnit \div 2
                           \/ tempo[d] - obs'.f.bpm > TempoUnit \div 2
                        THEN obs'.f.bpm ELSE tempo[d]]_vars
C16_Witness ==
  \E d \in up :
    /\ ~isLeader[d] /\ obs.op = "onDataReceived" /\ obs.d = d
    /\ obs.type = MSG_BEAT /\ obs.f.bpm = tempo[d]
    /\ tempo[d] = DEFAULT_BPM * TempoUnit + 51

\* C19 (as stated): every leader CLOCK frame that arrives 150 microseconds late
\* raises the correction factor by 0.0001, up to 1.1 where it stays; every
\* one that arrives 150 microseconds early lowers it by 0.0001, down to 0.9.
C19_EveryBiasedFrameSteps ==
  [][\A d \in Dev :
       LeaderClockStep(d) /\ obs'.bias \in {150, -150}
         => /\ driftCorrection'[d] = Nudged(driftCorrection[d], obs'.bias)
            /\ obs'.bias = 150 => driftCorrection'[d] >= driftCorrection[d]
            /\ obs'.bias = -150 => driftCorrection'[d] <= driftCorrection[d]]_vars

\* C19 (amended): every leader CLOCK frame that arrives 150 microseconds late
\* while a non-zero tick is on record raises the correction factor by 0.0001,
\* up to 1.1 where it stays, and one that arrives 150 microseconds early
\* lowers it by 0.0001, down to 0.9; a frame that arrives while no tick is on
\* record (the first of a stream, or the one after a frame for tick 0) leaves
\* the factor as it is.
C19_BiasedFrameStepsOncePrimed ==
  [][\A d \in Dev :
       LeaderClockStep(d) /\ obs'.bias \in {150, -150}
         => IF lastReceivedTick[d] # 0
              THEN /\ driftCorrection'[d] = Nudged(driftCorrection[d], obs'.bias)
                   /\ obs'.bias = 150 => driftCorrection'[d] >= driftCorrection[d]
                   /\ obs'.bias = -150 => driftCorrection'[d] <= driftCorrection[d]
              ELSE driftCorrection'[d] = driftCorrection[d]]_vars
C19_Witness ==
  \E d \in up :
    /\ obs.op = "onDataReceived" /\ obs.d = d /\ obs.type = MSG_CLOCK
    /\ obs.f.isLeader = 1 /\ obs.bias = 150 /\ obs.primed
    /\ obs.prior = DriftMax - 1 /\ driftCorrection[d] = DriftMax

\* C20 (as stated): the correction factor always lies in [0.9, 1.1]; a leader
\* CLOCK frame moves it one step of 0.0001 in the direction of the drift when
\* the drift exceeds 100 microseconds in size, and leaves it otherwise.
C20_FactorBoundedAndStepped ==
  /\ [](\A d \in Dev : driftCorrection[d] \in DriftMin .. DriftMax)
  /\ [][\A d \in Dev :
         LeaderClockStep(d)
           => driftCorrection'[d] = Nudged(driftCorrection[d], obs'.bias)]_vars

\* C20 (amended): the correction factor always lies in [0.9, 1.1]; a leader
\* CLOCK frame that arrives while a non-zero tick is on record moves it one
\* step of 0.0001 in the direction of the drift (not beyond 0.9 and 1.1) when
\* the drift exceeds 100 microseconds in size and leaves it otherwise; a frame
\* that arrives while no tick is on record leaves it whatever the drift.
C20_FactorBoundedAndSteppedOncePrimed ==
  /\ [](\A d \in Dev : driftCorrection[d] \in DriftMin .. DriftMax)
  /\ [][\A d \in Dev :
         LeaderClockStep(d)
           => driftCorrection'[d] =
                IF lastReceivedTick[d] # 0
                  THEN Nudged(driftCorrection[d], obs'.bias)
                  ELSE driftCorrection[d]]_vars
C20_Witness ==
  \E d \in up :
    /\ obs.op = "onDataReceived" /\ obs.d = d /\ obs.type = MSG_CLOCK
    /\ obs.f.isLeader = 1 /\ obs.bias = 101 /\ obs.primed
    /\ obs.prior = DriftUnit /\ driftCorrection[d] = DriftUnit + 1

\* the step hands Follower d a PATTERN frame
PatternRxStep(d) == RxStep(d) /\ obs'.type = MSG_PATTERN /\ ~isLeader[d]
\* what the claims compare of a channel
Settings(ch) == <<ch.barLength, ch.pattern, ch.enabled>>

\* C17: after a Follower has processed a PATTERN frame for a valid channel
\* (barLength within [1, MAX_BEATS], pattern below 2^barLength) that channel's
\* barLength, pattern and enabled flag are the frame's, whatever they were; a
\* frame for a channel id of CHANNEL_COUNT or more changes no channel.
C17_PatternFrameOverwrites ==
  [][\A d \in Dev :
       PatternRxStep(d)
         => IF obs'.f.channelId < CHANNEL_COUNT
              THEN Settings(chan'[d][obs'.f.channelId])
                     = <<obs'.f.barLength, obs'.f.pattern, obs'.f.enabled = 1>>
              ELSE chan'[d] = chan[d]]_vars

\* C18: a PATTERN frame applied to a Follower a second time in succession
\* leaves barLength, pattern and enabled flag of every channel as the first
\* application left them.
C18_PatternFrameIdempotent ==
  [][\A d \in Dev :
       (PatternRxStep(d) /\ obs.op = "onDataReceived" /\ obs.d = d
          /\ obs.f = obs'.f)
         => \A c \in Channels : Settings(chan'[d][c]) = Settings(chan[d][c])]_vars

\* C21: after a leader CLOCK frame a Follower's tempo is its local tempo (the
\* one last taken over) times the present correction factor, applied once
\* however many CLOCK frames came before, and so lies within [0.9, 1.1] times
\* the local tempo.
C21_CorrectionAppliedOnce ==
  [][\A d \in Dev :
       LeaderClockStep(d) /\ ~isLeader[d]
         => /\ tempo'[d] = (obs'.local * driftCorrection'[d]) \div DriftUnit
            /\ 10 * tempo'[d] >= 9 * obs'.local
            /\ 10 * tempo'[d] <= 11 * obs'.local]_vars

\* the drift model of device d
DriftModel(d) ==
  <<latencyBuffer[d], latencyBufferIndex[d], averageLatency[d],
    driftCorrection[d], lastReceivedTick[d], predictedNextTick[d]>>

\* C22: only a CLOCK frame of the leader (isLeader flag set) changes the drift
\* model of the receiver; a BEAT frame, or a CLOCK frame of a device that is
\* not the leader, leaves latency buffer, average latency, correction factor,
\* last received tick and predicted next tick as they were.
C22_DriftModelOnlyByLeaderClock ==
  [][\A d \in Dev :
       RxStep(d) /\ ~(obs'.type = MSG_CLOCK /\ obs'.f.isLeader = 1)
         => DriftModel(d)' = DriftModel(d)]_vars

\* the beats of a bar of at most MAX_BEATS slots that are active in pattern
ActiveBits(pattern) == {i \in 0 .. (MAX_BEATS - 1) : Bit(pattern, i) = 1}
\* the smaller of two numbers
Min(a, b) == IF a < b THEN a ELSE b

\* C23: generateEuclidean(k) on a channel of barLength n leaves a pattern with
\* exactly min(k, n) active bits, bit 0 among them; for n = 8 and k = 3 the
\* active bits are 0, 3 and 6.
C23_EuclideanHasKBeats ==
  [][\A d \in Dev :
       obs'.op = "generateEuclidean" /\ obs'.d = d
         => /\ Cardinality(ActiveBits(chan'[d][0].pattern)) = Min(obs'.k, obs'.n)
            /\ 0 \in ActiveBits(chan'[d][0].pattern)
            /\ (obs'.n = 8 /\ obs'.k = 3)
                 => ActiveBits(chan'[d][0].pattern) = {0, 3, 6}]_vars

\* C24: every channel always has a barLength within [1, MAX_BEATS] and a
\* pattern below 2^barLength, whatever the encoder edits and the PATTERN
\* frames received.
C24_ChannelsInRange ==
  \A d \in Dev, c \in Channels :
    /\ chan[d][c].barLength \in 1 .. MAX_BEATS
    /\ chan[d][c].pattern < Pow2(chan[d][c].barLength)

\* C25: every frame a device sends, of whatever type, reads back at the
\* receiver with the header the sender set (its id and priority, its sequence
\* number and the send time) and the payload fields it set, and every payload
\* byte its type does not use is zero, whatever the sender's memory held.
C25_FrameRoundTripZeroFilled ==
  [][\A d \in Dev :
       obs'.op = "send" /\ obs'.d = d
         => \A w \in obs'.wire :
              /\ Decode(w) \in {x.f : x \in net'}
              /\ Decode(w).deviceID = d /\ Decode(w).priority = priority[d]
              /\ Decode(w).timestamp = now
              /\ w.reserved = 0]_vars

\* the identity the election tracker of device d holds
Tracked(d) == <<highestPrioritySeen[d], highestPriorityDevice[d]>>

\* C26: while a negotiation is active a negotiation frame replaces the tracked
\* device exactly if its priority is higher, or equal with a lower device id;
\* the tracked identity never gets worse during a window (from the tracker
\* being set to the local identity to the return of the delay) and is, when
\* the window ends, the best of the local identity and the negotiation frames
\* processed in it; a frame that is no negotiation frame, or arrives while no
\* negotiation is active, leaves the tracker as it is.
C26_TrackerKeepsTheBest ==
  [][\A d \in Dev :
       /\ RxStep(d) =>
            Tracked(d)' =
              IF /\ leaderNegotiationActive[d]
                 /\ obs'.type = MSG_CONTROL /\ obs'.f.command = CMD_RESET
                 /\ obs'.f.param1 = 1
                 /\ Outranks(<<obs'.f.priority, obs'.f.deviceID>>, Tracked(d))
                THEN <<obs'.f.priority, obs'.f.deviceID>>
                ELSE Tracked(d)
       /\ (InWindow(d) /\ ~SettleStep(d))
            => (Tracked(d)' = Tracked(d) \/ Outranks(Tracked(d)', Tracked(d)))
       /\ SettleStep(d) => Tracked(d) = BestSoFar]_vars

\* the identities a tracker can hold: none yet, the local one, or one of a frame
Identities(d) ==
  {<<0, NoDevice>>, <<priority[d], d>>}
    \cup {<<m.priority, m.deviceID>> : m \in ElectInputs}

\* C27: the tracker is updated atomically with respect to the frame-arrival
\* notification: once startLeaderNegotiation has initialised it, the tracked
\* priority and the tracked device id belong to one device, and the identity a
\* negotiation frame has just put into the tracker while the active flag is
\* set is not replaced by a worse one in the step that follows (the
\* initialisation in startLeaderNegotiation).
C27_TrackerUpdatedAtomically ==
  /\ [](\A d \in Dev : InWindow(d) => Tracked(d) \in Identities(d))
  /\ [][\A d \in Dev :
         (/\ obs.op = "onDataReceived" /\ obs.d = d /\ leaderNegotiationActive[d]
          /\ Tracked(d) = <<obs.f.priority, obs.f.deviceID>>
          /\ obs'.op # "settleEnd")
           => (Tracked(d)' = Tracked(d) \/ Outranks(Tracked(d)', Tracked(d)))]_vars

\* C28: while a device is Leader no frame received from another device (a
\* CLOCK frame of a leader, BEAT, BAR, PATTERN or CONTROL) changes its tempo or
\* the barLength, pattern or enabled flag of any of its channels.
C28_LeaderKeepsTempoAndPatterns ==
  [][\A d \in Dev :
       (RxStep(d) /\ isLeader[d] /\ obs'.f.deviceID # d)
         => /\ tempo'[d] = tempo[d]
            /\ \A c \in Channels : Settings(chan'[d][c]) = Settings(chan[d][c])]_vars

\* C29: only a Leader emits CLOCK, BEAT, BAR and PATTERN frames: every such
\* frame a step puts on the air comes from a device that is Leader when it
\* sends, also when the step is an update() that finds a channel marked dirty.
C29_OnlyLeaderEmits ==
  [][\A x \in net' \ net :
       x.f.type \in {MSG_CLOCK, MSG_BEAT, MSG_BAR, MSG_PATTERN}
         => isLeader[x.f.deviceID]]_vars

\* C30: a PATTERN frame is applied only when the pattern-state reference has
\* been set: whenever the receive callback reaches the channel access for a
\* PATTERN frame (the receiver is Follower and the channel id is valid), an
\* update() call has stored the reference before, also right after init().
C30_PatternNeedsReference ==
  [][\A d \in Dev :
       (/\ RxStep(d) /\ obs'.type = MSG_PATTERN
        /\ ~Rejected(d, obs'.f, obs'.len) /\ Dereferences(d, obs'.f))
         => state[d]]_vars

====
